---- MODULE Spec2Model ----
(***************************************************************************)
(* NBA data-warehouse pipeline: the Airflow DAG nba_pipeline_dag           *)
(* (dags/nba_pipeline_dag.py) and the Streamlit dashboard                  *)
(* (include/streamlit_app.py).                                             *)
(*                                                                         *)
(* Strings that the code inspects character by character (column names,    *)
(* player names, SQL literals) are sequences of one-character strings.     *)
(***************************************************************************)
EXTENDS Integers, Sequences, FiniteSets, TLC

(***************************************************************************)
(* State                                                                   *)
(***************************************************************************)
\* the pipeline
VARIABLES
  now,        \* wall clock, in seconds
  runState,   \* DAG run -> "none" | "running" | "success" | "failed"
  tiState,    \* DAG run -> task -> state of the task instance
  tryNumber,  \* DAG run -> task -> attempts started so far
  failedAt,   \* DAG run -> task -> time of the last failed attempt
  xcom,       \* DAG run -> return value of extract_kaggle_data
  files,      \* /tmp/nba_stats_<timestamp>.csv -> content and writer
  staging,    \* MARMOT_FINAL.RAW_NBA_STATS
  readFrom,   \* DAG run -> run whose extractor wrote the file its loader read
  loadedDf,   \* DAG run -> dataset version its loader read
  writeOk,    \* DAG run -> what write_pandas reported in its last attempt
  startLog,   \* DAG run -> tasks in the order of their first start
  succCount   \* DAG run -> task -> number of times the task succeeded

pipeVars ==
  << now, runState, tiState, tryNumber, failedAt, xcom, files, staging,
     readFrom, loadedDf, writeOk, startLog, succCount >>

\* the warehouse's fact tables
VARIABLES
  fact_player_season,           \* rows [season_year, player_name, points_per_game]
  fact_player_season_advanced   \* rows [season_year, player_name, VORP]

factVars == << fact_player_season, fact_player_season_advanced >>

\* column-name cleaning, applied to one name and to its own result
VARIABLES
  sanPc,      \* "input" | "cleaned" | "twice"
  column,     \* the column name read from the CSV
  cleaned,    \* the name after the loader's cleaning
  recleaned   \* the cleaned name, cleaned again

sanVars == << sanPc, column, cleaned, recleaned >>

\* the readiness check, query by query
VARIABLES
  vizPc,           \* "count_fact" | "count_advanced" | "count_players" | "decide" | "done"
  fact_count,
  advanced_count,
  unique_players,
  vizResult        \* "none" | "True" | "raise"

vizVars == << vizPc, fact_count, advanced_count, unique_players, vizResult >>

\* the warehouse session and the dashboard session
VARIABLES
  default_null_ordering,  \* Snowflake's DEFAULT_NULL_ORDERING: "LAST" | "FIRST"
  tieOrder,         \* how the engine orders rows that tie: "table" | "reverse"
  dashPc,           \* "lists" | "filters" | "tab1" | "tab2" | "tab3" | "done" | "stopped"
  listsCached,      \* st.cache_data holds the results of get_seasons, get_players
  seasons,          \* get_seasons()
  players,          \* get_players()
  selected_season,  \* the season selectbox: AllOption or <<year>>
  selected_player,  \* the player selectbox: AllOption or a name
  overview,         \* what tab1 shows: [status, rows]
  player_df,        \* what tab2 shows: [status, rows]
  top_df,           \* what tab3 shows: [status, rows]
  columns,          \* tab1: the column names of cursor.description, lowercased
  season_queries,   \* season-list queries sent to the warehouse
  player_queries,   \* player-list queries sent to the warehouse
  lookupFailed,     \* the lookups whose cached result is the [] of the handler
  cacheHit          \* this pass got its lists from st.cache_data

dashVars ==
  << default_null_ordering, tieOrder, dashPc, listsCached, seasons, players,
     selected_season, selected_player, overview, player_df, top_df,
     columns, season_queries, player_queries, lookupFailed, cacheHit >>

vars == << pipeVars, factVars, sanVars, vizVars, dashVars >>

notPipe == << factVars, sanVars, vizVars, dashVars >>
notSan == << pipeVars, factVars, vizVars, dashVars >>
notViz == << pipeVars, sanVars, dashVars >>
notDash == << pipeVars, factVars, sanVars, vizVars >>

(***************************************************************************)
(* Bounds of the model                                                     *)
(***************************************************************************)
NumVersions == 2    \* versions of the Kaggle dataset an extraction may see
MaxJitter == 1      \* one-second clock steps allowed between delay jumps

\* DAG runs that may be active together (a scheduled and a manual one):
\* no claim speaks of more than two invocations at once
Runs == {1, 2}
Versions == 1..NumVersions

(***************************************************************************)
(* default_args                                                            *)
(***************************************************************************)
retries == 2
retry_delay == 300  \* timedelta(minutes=5), in seconds

MaxClock == retries * retry_delay + MaxJitter

(***************************************************************************)
(* The task chain                                                          *)
(***************************************************************************)
Chain ==
  << "extract_kaggle_data", "load_to_snowflake", "transform_with_dbt",
     "verify_raw_data", "print_raw_verification_results",
     "verify_transformed_data", "print_transformed_verification_results",
     "verify_visualization_data" >>

Tasks == {Chain[i] : i \in 1..Len(Chain)}

Index(t) == CHOOSE i \in 1..Len(Chain) : Chain[i] = t

UpstreamNone(t) == {}

\* a >> b makes a the direct upstream of b
Upstream(t) == IF Index(t) = 1 THEN {} ELSE {Chain[Index(t) - 1]}

Downstream(t) == {Chain[i] : i \in (Index(t) + 1)..Len(Chain)}

\* operators without a modelled body of their own
PlainTasks ==
  { "transform_with_dbt", "verify_raw_data", "print_raw_verification_results",
    "verify_transformed_data", "print_transformed_verification_results" }

(***************************************************************************)
(* Column names and dataframes                                             *)
(***************************************************************************)
\* Python str.replace: non-overlapping occurrences, scanned left to right
RECURSIVE Replace(_, _, _)
Replace(s, old, new) ==
  IF Len(s) < Len(old) THEN s
  ELSE IF SubSeq(s, 1, Len(old)) = old
       THEN new \o Replace(SubSeq(s, Len(old) + 1, Len(s)), old, new)
       ELSE <<s[1]>> \o Replace(Tail(s), old, new)

CleanColumnKeepSlash(col) ==
  LET a == Replace(col, <<" ">>, <<"_">>)
      b == Replace(a, <<"%">>, <<"_", "P", "C", "T">>)
      d == Replace(b, <<"3", "P">>, <<"T", "h", "r", "e", "e", "P">>)
      e == Replace(d, <<"2", "P">>, <<"T", "w", "o", "P">>)
  IN  Replace(e, <<"U", "n", "n", "a", "m", "e", "d", ":", " ", "0">>,
                 <<"U", "n", "n", "a", "m", "e", "d", "_", "0">>)

CleanColumnSlashToSpace(col) ==
  LET a == Replace(col, <<" ">>, <<"_">>)
      b == Replace(a, <<"%">>, <<"_", "P", "C", "T">>)
      c == Replace(b, <<"/">>, <<" ">>)
      d == Replace(c, <<"3", "P">>, <<"T", "h", "r", "e", "e", "P">>)
      e == Replace(d, <<"2", "P">>, <<"T", "w", "o", "P">>)
  IN  Replace(e, <<"U", "n", "n", "a", "m", "e", "d", ":", " ", "0">>,
                 <<"U", "n", "n", "a", "m", "e", "d", "_", "0">>)

\* load_to_snowflake, "Clean column names for Snowflake compatibility"
CleanColumn(col) ==
  LET a == Replace(col, <<" ">>, <<"_">>)
      b == Replace(a, <<"%">>, <<"_", "P", "C", "T">>)
      c == Replace(b, <<"/">>, <<"_">>)
      d == Replace(c, <<"3", "P">>, <<"T", "h", "r", "e", "e", "P">>)
      e == Replace(d, <<"2", "P">>, <<"T", "w", "o", "P">>)
  IN  Replace(e, <<"U", "n", "n", "a", "m", "e", "d", ":", " ", "0">>,
                 <<"U", "n", "n", "a", "m", "e", "d", "_", "0">>)

extraction_timestamp ==
  << "e", "x", "t", "r", "a", "c", "t", "i", "o", "n", "_",
     "t", "i", "m", "e", "s", "t", "a", "m", "p" >>

\* Seasons_Stats.csv as the extractor may see it: version v has v rows of
\* its own and, besides the common columns, one column of its own
DatasetRows(v) == {10 * v + i : i \in 1..v}

DatasetCols(v) ==
  { <<"U", "n", "n", "a", "m", "e", "d", ":", " ", "0">>,
    <<"P", "l", "a", "y", "e", "r">>,
    <<"3", "P", "%">>,
    <<"W", "S", "/", "4", "8">>,
    IF v % 2 = 1 THEN <<"2", "P", "A">> ELSE <<"F", "G", "%">> }

Dataset(v) == [rows |-> DatasetRows(v), cols |-> DatasetCols(v)]

NoTable == [rows |-> {}, cols |-> {}]

\* the dataframe handed to write_pandas
LoadFrame(df) ==
  [rows |-> df.rows,
   cols |-> {CleanColumn(c) : c \in df.cols} \cup {extraction_timestamp}]

WritePandasAppend(table, frame) ==
  [rows |-> table.rows \cup frame.rows, cols |-> table.cols \cup frame.cols]

\* write_pandas(..., auto_create_table=True, overwrite=True), when it succeeds
WritePandas(table, frame) == frame

\* "if success: ... else: raise Exception(...)"
LoadOutcome(success) == IF success THEN "success" ELSE "raise"

(***************************************************************************)
(* Readiness check                                                         *)
(***************************************************************************)
verify_visualization_data_or(fc, ac, up) ==
  IF fc > 0 \/ ac > 0 THEN "True" ELSE "raise"

\* the branch at the end of verify_visualization_data
\* (fc, ac, up: fact_count, advanced_count, unique_players)
verify_visualization_data(fc, ac, up) ==
  IF fc > 0 /\ ac > 0 THEN "True" ELSE "raise"

(***************************************************************************)
(* Files and the initial state of the pipeline                             *)
(***************************************************************************)
\* no return value pushed yet
NoPath == <<>>
NoFile == [data |-> 0, writer |-> 0]

\* df.to_csv(filename): the file is created, or overwritten if it exists
WriteFile(fs, path, content) ==
  [p \in DOMAIN fs \cup {path} |-> IF p = path THEN content ELSE fs[p]]

\* strftime("%Y%m%d_%H%M%S"): the clock read to the second
Timestamp(t) == t

\* f"/tmp/nba_stats_{timestamp}.csv": the path, as its timestamp part
TempFile(t) == <<Timestamp(t)>>

InitPipe ==
  /\ now = 0
  /\ runState = [r \in Runs |-> "none"]
  /\ tiState = [r \in Runs |-> [t \in Tasks |-> "none"]]
  /\ tryNumber = [r \in Runs |-> [t \in Tasks |-> 0]]
  /\ failedAt = [r \in Runs |-> [t \in Tasks |-> 0]]
  /\ xcom = [r \in Runs |-> NoPath]
  /\ files = [p \in {} |-> NoFile]
  /\ staging = NoTable
  /\ readFrom = [r \in Runs |-> 0]
  /\ loadedDf = [r \in Runs |-> 0]
  /\ writeOk = [r \in Runs |-> "none"]
  /\ startLog = [r \in Runs |-> <<>>]
  /\ succCount = [r \in Runs |-> [t \in Tasks |-> 0]]

(***************************************************************************)
(* The scheduler                                                           *)
(***************************************************************************)
EligibleToRetryNever(try_number) == FALSE

\* 'retries': 2 -- a failed attempt is retried while the budget lasts
EligibleToRetry(try_number) == try_number <= retries

\* 'retry_delay': timedelta(minutes=5)
RetryReadyAt(failed_at) == failed_at + retry_delay

LeavesFirstPrint == {"print_raw_verification_results"}

\* the tasks nothing depends on: the run succeeds when they have succeeded
Leaves == {t \in Tasks : \A u \in Tasks : t \notin Upstream(u)}

\* the clock: a second passes, or the time of a retry delay passes
Tick ==
  /\ UNCHANGED notPipe
  /\ \E d \in {1, retry_delay} :
       /\ now + d <= MaxClock
       /\ d = 1 => now % retry_delay < MaxJitter
       /\ now' = now + d
  /\ UNCHANGED << runState, tiState, tryNumber, failedAt, xcom, files,
                  staging, readFrom, loadedDf, writeOk, startLog, succCount >>

\* schedule='@daily' or a manual trigger creates a run with its task instances
TriggerRun(r) ==
  /\ UNCHANGED notPipe
  /\ runState[r] = "none"
  /\ runState' = [runState EXCEPT ![r] = "running"]
  /\ tiState' = [tiState EXCEPT ![r] = [t \in Tasks |-> "queued"]]
  /\ UNCHANGED << now, tryNumber, failedAt, xcom, files, staging, readFrom,
                  loadedDf, writeOk, startLog, succCount >>

\* queued -> running, once every upstream task has succeeded
StartTask(r, t) ==
  /\ UNCHANGED notPipe
  /\ runState[r] = "running"
  /\ tiState[r][t] = "queued"
  /\ \A u \in Upstream(t) : tiState[r][u] = "success"
  /\ tiState' = [tiState EXCEPT ![r][t] = "running"]
  /\ tryNumber' = [tryNumber EXCEPT ![r][t] = @ + 1]
  /\ startLog' = [startLog EXCEPT ![r] = Append(@, t)]
  /\ UNCHANGED << now, runState, failedAt, xcom, files, staging, readFrom,
                  loadedDf, writeOk, succCount >>

\* failed-retrying -> running, once the retry delay has passed
RetryTask(r, t) ==
  /\ UNCHANGED notPipe
  /\ runState[r] = "running"
  /\ tiState[r][t] = "failed_retrying"
  /\ now >= RetryReadyAt(failedAt[r][t])
  /\ tiState' = [tiState EXCEPT ![r][t] = "running"]
  /\ tryNumber' = [tryNumber EXCEPT ![r][t] = @ + 1]
  /\ failedAt' = [failedAt EXCEPT ![r][t] = 0]
  /\ UNCHANGED << now, runState, xcom, files, staging, readFrom,
                  loadedDf, writeOk, startLog, succCount >>

\* the attempt of t raised: retry, or fail the task and with it the run
FailTask(r, t) ==
  /\ IF EligibleToRetry(tryNumber[r][t])
     THEN /\ tiState' = [tiState EXCEPT ![r][t] = "failed_retrying"]
          /\ failedAt' = [failedAt EXCEPT ![r][t] = now]
          /\ runState' = runState
     ELSE /\ tiState' = [tiState EXCEPT ![r][t] = "failed_terminal"]
          /\ failedAt' = failedAt
          /\ runState' = [runState EXCEPT ![r] = "failed"]
  /\ succCount' = succCount

\* the attempt of t returned: the run succeeds with its last task
SucceedTask(r, t) ==
  /\ tiState' = [tiState EXCEPT ![r][t] = "success"]
  /\ succCount' = [succCount EXCEPT ![r][t] = @ + 1]
  /\ runState' =
       IF \A l \in Leaves : tiState'[r][l] = "success"
       THEN [runState EXCEPT ![r] = "success"]
       ELSE runState
  /\ failedAt' = failedAt

(***************************************************************************)
(* The tasks                                                               *)
(***************************************************************************)
\* extract_kaggle_data: ok = the download succeeded, v = the dataset it got
Extract(r, ok, v) ==
  /\ UNCHANGED notPipe
  /\ tiState[r]["extract_kaggle_data"] = "running"
  /\ IF ok
     THEN /\ files' = WriteFile(files, TempFile(now), [data |-> v, writer |-> r])
          /\ xcom' = [xcom EXCEPT ![r] = TempFile(now)]
          /\ SucceedTask(r, "extract_kaggle_data")
     ELSE /\ UNCHANGED << files, xcom >>
          /\ FailTask(r, "extract_kaggle_data")
  /\ UNCHANGED << now, tryNumber, staging, readFrom, loadedDf, writeOk, startLog >>

\* load_to_snowflake: success = what write_pandas reports; a write that
\* failed leaves the table as it was (kept = TRUE) or emptied
Load(r, success, kept) ==
  /\ UNCHANGED notPipe
  /\ tiState[r]["load_to_snowflake"] = "running"
  /\ success => kept
  /\ LET csv_file == xcom[r]
         df == Dataset(files[csv_file].data)
     IN  /\ csv_file # NoPath
         /\ csv_file \in DOMAIN files
         /\ readFrom' = [readFrom EXCEPT ![r] = files[csv_file].writer]
         /\ loadedDf' = [loadedDf EXCEPT ![r] = files[csv_file].data]
         /\ writeOk' = [writeOk EXCEPT ![r] = IF success THEN "ok" ELSE "failed"]
         /\ staging' = IF success THEN WritePandas(staging, LoadFrame(df))
                       ELSE IF kept THEN staging ELSE NoTable
  /\ IF LoadOutcome(success) = "success"
     THEN SucceedTask(r, "load_to_snowflake")
     ELSE FailTask(r, "load_to_snowflake")
  /\ UNCHANGED << now, tryNumber, xcom, files, startLog >>

\* the dbt run, the two verification queries and the two print steps
RunOperator(r, t, ok) ==
  /\ UNCHANGED notPipe
  /\ t \in PlainTasks
  /\ tiState[r][t] = "running"
  /\ IF ok THEN SucceedTask(r, t) ELSE FailTask(r, t)
  /\ UNCHANGED << now, tryNumber, xcom, files, staging, readFrom, loadedDf,
                  writeOk, startLog >>

\* verify_visualization_data on the counts its three queries returned
VerifyViz(r, fc, ac, up) ==
  /\ UNCHANGED notPipe
  /\ tiState[r]["verify_visualization_data"] = "running"
  /\ IF verify_visualization_data(fc, ac, up) = "True"
     THEN SucceedTask(r, "verify_visualization_data")
     ELSE FailTask(r, "verify_visualization_data")
  /\ UNCHANGED << now, tryNumber, xcom, files, staging, readFrom, loadedDf,
                  writeOk, startLog >>

\* a SQL NULL; a value v of a nullable column is <<v>>
NULL == <<>>

NoRows == {}

(***************************************************************************)
(* Column-name cleaning, applied to one name and to its own result         *)
(***************************************************************************)

MaxColLen == 3

ColumnChars == {" ", "%", "/", "3", "2", "P", "_", "T"}

ColumnNames ==
  UNION {[1..k -> ColumnChars] : k \in 0..MaxColLen}
    \cup UNION {DatasetCols(v) : v \in Versions}

SanIdle ==
  /\ sanPc = "input"
  /\ column = <<>>
  /\ cleaned = <<>>
  /\ recleaned = <<>>

InitSanitize ==
  /\ sanPc = "input"
  /\ column \in ColumnNames
  /\ cleaned = <<>>
  /\ recleaned = <<>>

CleanOnce ==
  /\ UNCHANGED notSan
  /\ sanPc = "input"
  /\ cleaned' = CleanColumn(column)
  /\ sanPc' = "cleaned"
  /\ UNCHANGED << column, recleaned >>

CleanAgain ==
  /\ UNCHANGED notSan
  /\ sanPc = "cleaned"
  /\ recleaned' = CleanColumn(cleaned)
  /\ sanPc' = "twice"
  /\ UNCHANGED << column, cleaned >>

NextSanitize == CleanOnce \/ CleanAgain

(***************************************************************************)
(* The readiness check, query by query                                     *)
(***************************************************************************)

\* the players a small fact table may hold; the warehouse enforces no
\* NOT NULL on player_name
VizPlayers == {NULL, <<"a">>, <<"b">>}

VizFactTables ==
  SUBSET {[season_year |-> 2017, player_name |-> p, points_per_game |-> 10]
            : p \in VizPlayers}

VizAdvancedTables ==
  SUBSET {[season_year |-> 2017, player_name |-> p, VORP |-> <<1>>]
            : p \in VizPlayers \ {NULL}}

\* COUNT(*)
CountRows(table) == Cardinality(table)

\* COUNT(DISTINCT player_name): NULLs are not counted
CountDistinctPlayers(table) ==
  Cardinality({row.player_name : row \in table} \ {NULL})

VizIdle ==
  /\ vizPc = "count_fact"
  /\ fact_count = 0
  /\ advanced_count = 0
  /\ unique_players = 0
  /\ vizResult = "none"

InitReadiness ==
  /\ fact_player_season \in VizFactTables
  /\ fact_player_season_advanced \in VizAdvancedTables
  /\ VizIdle

\* SELECT COUNT(*) FROM fact_player_season
QueryFactCount ==
  /\ UNCHANGED notViz
  /\ vizPc = "count_fact"
  /\ fact_count' = CountRows(fact_player_season)
  /\ vizPc' = "count_advanced"
  /\ UNCHANGED << advanced_count, unique_players, vizResult, factVars >>

\* SELECT COUNT(*) FROM fact_player_season_advanced
QueryAdvancedCount ==
  /\ UNCHANGED notViz
  /\ vizPc = "count_advanced"
  /\ advanced_count' = CountRows(fact_player_season_advanced)
  /\ vizPc' = "count_players"
  /\ UNCHANGED << fact_count, unique_players, vizResult, factVars >>

\* SELECT COUNT(DISTINCT player_name) FROM fact_player_season
QueryUniquePlayers ==
  /\ UNCHANGED notViz
  /\ vizPc = "count_players"
  /\ unique_players' = CountDistinctPlayers(fact_player_season)
  /\ vizPc' = "decide"
  /\ UNCHANGED << fact_count, advanced_count, vizResult, factVars >>

\* the if/else that returns True or raises
Decide ==
  /\ UNCHANGED notViz
  /\ vizPc = "decide"
  /\ vizResult' = verify_visualization_data(fact_count, advanced_count, unique_players)
  /\ vizPc' = "done"
  /\ UNCHANGED << fact_count, advanced_count, unique_players, factVars >>

\* the transform step of another run rebuilds the fact tables meanwhile
DbtRun ==
  /\ UNCHANGED notViz
  /\ vizPc # "done"
  /\ fact_player_season' \in VizFactTables
  /\ fact_player_season_advanced' \in VizAdvancedTables
  /\ UNCHANGED vizVars

NextReadiness ==
  \/ QueryFactCount
  \/ QueryAdvancedCount
  \/ QueryUniquePlayers
  \/ Decide
  \/ DbtRun

(***************************************************************************)
(* The dashboard                                                           *)
(***************************************************************************)
MaxRows == 22     \* player-season rows of the basic fact table

TopLimit == 20    \* LIMIT 20

\* player names, in the order ORDER BY player_name and sorted() give them
PlayerNames ==
  << <<"O", "'", "N">>, <<"a">>, <<"b">>, <<"c", "'">>, <<"c", "'", "'">> >>

NameRank(name) == CHOOSE i \in 1..Len(PlayerNames) : PlayerNames[i] = name

\* the i-th player-season: five players a season, from 2015 on
FactRow(i) ==
  [season_year |-> 2015 + ((i - 1) \div Len(PlayerNames)),
   player_name |-> PlayerNames[((i - 1) % Len(PlayerNames)) + 1],
   points_per_game |-> ((i * 7) % 11) + 5]

AdvancedRow(i) ==
  [season_year |-> FactRow(i).season_year,
   player_name |-> FactRow(i).player_name,
   VORP |-> <<((i * 5) % 9) - 2>>]

\* n player-seasons; advanced metrics exist from season `covered` on
FactTable(n) == {FactRow(i) : i \in 1..n}

AdvancedTable(n, covered) ==
  {AdvancedRow(i) : i \in {j \in 1..n : FactRow(j).season_year >= covered}}

\* the option "All" of both select boxes
AllOption == <<"A", "l", "l">>

NoView == [status |-> "none", rows |-> <<>>]

RECURSIVE SetToSeq(_)
SetToSeq(S) ==
  IF S = {} THEN <<>>
  ELSE LET x == CHOOSE y \in S : TRUE IN <<x>> \o SetToSeq(S \ {x})

Min(a, b) == IF a <= b THEN a ELSE b

\* FROM fact_player_season f LEFT JOIN fact_player_season_advanced a
\*   ON f.season_year = a.season_year AND f.player_name = a.player_name
JoinRows(f) ==
  LET m == {a \in fact_player_season_advanced :
              a.season_year = f.season_year /\ a.player_name = f.player_name}
  IN  IF m = {}
      THEN {[season_year |-> f.season_year, player_name |-> f.player_name,
             points_per_game |-> f.points_per_game,
             value_over_replacement_player |-> NULL]}
      ELSE {[season_year |-> f.season_year, player_name |-> f.player_name,
             points_per_game |-> f.points_per_game,
             value_over_replacement_player |-> a.VORP] : a \in m}

LeftJoin == UNION {JoinRows(f) : f \in fact_player_season}

\* rows that tie under ORDER BY come in an order the engine chooses
RowRank(row) == row.season_year * 10 + NameRank(row.player_name)

TieBefore(x, y) ==
  IF tieOrder = "table" THEN RowRank(x) < RowRank(y) ELSE RowRank(x) > RowRank(y)

\* ORDER BY f.season_year DESC, f.points_per_game DESC
BaseBefore(x, y) ==
  \/ x.season_year > y.season_year
  \/ /\ x.season_year = y.season_year
     /\ \/ x.points_per_game > y.points_per_game
        \/ x.points_per_game = y.points_per_game /\ TieBefore(x, y)

\* ORDER BY f.season_year DESC (tab2)
SeasonBefore(x, y) ==
  \/ x.season_year > y.season_year
  \/ x.season_year = y.season_year /\ TieBefore(x, y)

\* Snowflake: with DEFAULT_NULL_ORDERING = 'LAST' NULLs rank above every
\* value, so DESC lists them first; with 'FIRST' they rank below
NullsFirstOnDesc == default_null_ordering = "LAST"

\* ORDER BY value_over_replacement_player DESC
VorpBefore(x, y) ==
  LET vx == x.value_over_replacement_player
      vy == y.value_over_replacement_player
  IN  IF vx = NULL /\ vy = NULL THEN TieBefore(x, y)
      ELSE IF vx = NULL THEN NullsFirstOnDesc
      ELSE IF vy = NULL THEN ~NullsFirstOnDesc
      ELSE vx[1] > vy[1] \/ (vx[1] = vy[1] /\ TieBefore(x, y))

\* the SQL lexer on a text that starts with a quote: '' inside is one quote,
\* a single ' ends the literal; ok iff the literal ends where the text ends
RECURSIVE ScanLiteral(_, _, _)
ScanLiteral(text, i, acc) ==
  IF i > Len(text) THEN [ok |-> FALSE, value |-> acc]
  ELSE IF text[i] = "'"
       THEN IF i < Len(text) /\ text[i + 1] = "'"
            THEN ScanLiteral(text, i + 2, Append(acc, "'"))
            ELSE [ok |-> i = Len(text), value |-> acc]
       ELSE ScanLiteral(text, i + 1, Append(acc, text[i]))

StringLiteral(text) == ScanLiteral(text, 2, <<>>)

\* build_query: the two conditions appended to "WHERE 1=1"; the season is
\* formatted as a number, the player name is put between quotes as it is
build_query ==
  [season |-> IF selected_season # AllOption THEN selected_season ELSE <<>>,
   player |-> IF selected_player # AllOption
              THEN <<"'">> \o selected_player \o <<"'">>
              ELSE <<>>]

\* cursor.execute(query) + fetchall() for the base query
ExecuteBase(q) ==
  IF q.player # <<>> /\ ~StringLiteral(q.player).ok
  THEN [status |-> "error", rows |-> <<>>]
  ELSE LET hit == {row \in LeftJoin :
                     /\ q.season # <<>> => row.season_year = q.season[1]
                     /\ q.player # <<>> =>
                          row.player_name = StringLiteral(q.player).value}
       IN  [status |-> "ok", rows |-> SortSeq(SetToSeq(hit), BaseBefore)]

\* the player query of tab2: WHERE f.player_name = '{selected_player}'
ExecutePlayer(text) ==
  IF ~StringLiteral(text).ok
  THEN [status |-> "error", rows |-> <<>>]
  ELSE LET hit == {row \in LeftJoin :
                     row.player_name = StringLiteral(text).value}
       IN  [status |-> "ok", rows |-> SortSeq(SetToSeq(hit), SeasonBefore)]

\* the top performers query of tab3
ExecuteTop ==
  LET sorted == SortSeq(SetToSeq(LeftJoin), VorpBefore)
  IN  [status |-> "ok", rows |-> SubSeq(sorted, 1, Min(TopLimit, Len(sorted)))]

\* SELECT DISTINCT season_year ... ORDER BY season_year DESC
SeasonList ==
  SortSeq(SetToSeq({row.season_year : row \in fact_player_season}),
          LAMBDA a, b : a > b)

\* SELECT DISTINCT player_name ... ORDER BY player_name
PlayerList ==
  SortSeq(SetToSeq({row.player_name : row \in fact_player_season}),
          LAMBDA a, b : NameRank(a) < NameRank(b))

Elements(seq) == {seq[i] : i \in 1..Len(seq)}

\* nothing looked up, nothing described yet
LookupsIdle ==
  /\ columns = {}
  /\ season_queries = 0
  /\ player_queries = 0
  /\ lookupFailed = {}
  /\ cacheHit = FALSE

DashIdle ==
  /\ default_null_ordering = "LAST"
  /\ tieOrder = "table"
  /\ dashPc = "lists"
  /\ listsCached = FALSE
  /\ seasons = <<>>
  /\ players = <<>>
  /\ selected_season = AllOption
  /\ selected_player = AllOption
  /\ overview = NoView
  /\ player_df = NoView
  /\ top_df = NoView
  /\ LookupsIdle

InitDashboard ==
  /\ \E n \in 0..MaxRows, covered \in 2015..2020 :
       /\ covered <= 2015 + ((n + Len(PlayerNames) - 1) \div Len(PlayerNames))
       /\ fact_player_season = FactTable(n)
       /\ fact_player_season_advanced = AdvancedTable(n, covered)
  /\ default_null_ordering \in {"LAST", "FIRST"}
  /\ tieOrder \in {"table", "reverse"}
  /\ dashPc = "lists"
  /\ listsCached = FALSE
  /\ seasons = <<>>
  /\ players = <<>>
  /\ selected_season = AllOption
  /\ selected_player = AllOption
  /\ overview = NoView
  /\ player_df = NoView
  /\ top_df = NoView
  /\ LookupsIdle

\* the columns the base query selects that tab1 reads, as cursor.description
\* names them after .lower()
BaseColumns ==
  { "season_year", "player_name", "team_code", "points_per_game",
    "player_efficiency_rating", "value_over_replacement_player" }

required_columns ==
  {"player_name", "season_year", "points_per_game", "player_efficiency_rating"}

\* the descriptions tab1 provides for: complete, or lacking a required column
Descriptions == {BaseColumns, BaseColumns \ {"player_efficiency_rating"}}

\* "except Exception as e: st.error(...)"
ErrorView == [status |-> "error", rows |-> <<>>]

\* seasons = get_seasons(); players = get_players(), both under st.cache_data:
\* the body runs on a cache miss only, and what it returns is cached, the []
\* of its exception handler included (seasons_ok, players_ok: the query of
\* the lookup succeeded)
GetLists(seasons_ok, players_ok) ==
  /\ UNCHANGED notDash
  /\ dashPc = "lists"
  /\ IF listsCached
     THEN /\ UNCHANGED << seasons, players, season_queries, player_queries,
                          lookupFailed >>
          /\ cacheHit' = TRUE
     ELSE /\ seasons' = IF seasons_ok THEN SeasonList ELSE <<>>
          /\ players' = IF players_ok THEN PlayerList ELSE <<>>
          /\ season_queries' = season_queries + 1
          /\ player_queries' = player_queries + 1
          /\ lookupFailed' = {n \in {"seasons", "players"} :
                                \/ n = "seasons" /\ ~seasons_ok
                                \/ n = "players" /\ ~players_ok}
          /\ cacheHit' = FALSE
  /\ listsCached' = TRUE
  /\ dashPc' = "filters"
  /\ UNCHANGED << default_null_ordering, tieOrder, selected_season,
                  selected_player, overview, player_df, top_df, columns >>

\* the two select boxes: "All" or one of the listed values
SelectFilters(s, p) ==
  /\ UNCHANGED notDash
  /\ dashPc = "filters"
  /\ s \in {AllOption} \cup {<<y>> : y \in Elements(seasons)}
  /\ p \in {AllOption} \cup Elements(players)
  /\ selected_season' = s
  /\ selected_player' = p
  /\ dashPc' = "tab1"
  /\ UNCHANGED << default_null_ordering, tieOrder, listsCached, seasons,
                  players, overview, player_df, top_df, columns,
                  season_queries, player_queries, lookupFailed, cacheHit >>

\* tab1: the base query (up: the warehouse answers; description: the columns
\* of the result).  An exception is shown by st.error and the script goes
\* on; a non-empty result that lacks a required column is shown by st.error
\* and st.stop() ends the script run
Tab1(up, description) ==
  /\ UNCHANGED notDash
  /\ dashPc = "tab1"
  /\ LET df == IF up THEN ExecuteBase(build_query) ELSE ErrorView
         missing_columns == required_columns \ description
     IN  IF df.status = "error"
         THEN /\ overview' = df
              /\ columns' = {}
              /\ dashPc' = "tab2"
         ELSE IF Len(df.rows) > 0 /\ missing_columns # {}
         THEN /\ overview' = [status |-> "missing_columns", rows |-> df.rows]
              /\ columns' = description
              /\ dashPc' = "stopped"
         ELSE /\ overview' = df
              /\ columns' = description
              /\ dashPc' = "tab2"
  /\ UNCHANGED << default_null_ordering, tieOrder, listsCached, seasons,
                  players, selected_season, selected_player, player_df, top_df,
                  season_queries, player_queries, lookupFailed, cacheHit >>

\* tab2: the player query, only when a player is selected
Tab2(up) ==
  /\ UNCHANGED notDash
  /\ dashPc = "tab2"
  /\ player_df' =
       IF selected_player # AllOption
       THEN IF up THEN ExecutePlayer(<<"'">> \o selected_player \o <<"'">>)
            ELSE ErrorView
       ELSE NoView
  /\ dashPc' = "tab3"
  /\ UNCHANGED << default_null_ordering, tieOrder, listsCached, seasons,
                  players, selected_season, selected_player, overview, top_df,
                  columns, season_queries, player_queries, lookupFailed,
                  cacheHit >>

\* tab3: the top performers query
Tab3(up) ==
  /\ UNCHANGED notDash
  /\ dashPc = "tab3"
  /\ top_df' = IF up THEN ExecuteTop ELSE ErrorView
  /\ dashPc' = "done"
  /\ UNCHANGED << default_null_ordering, tieOrder, listsCached, seasons,
                  players, selected_season, selected_player, overview,
                  player_df, columns, season_queries, player_queries,
                  lookupFailed, cacheHit >>

\* the user touches a widget: Streamlit runs the script again from the top
\* and builds the page anew
Rerun ==
  /\ UNCHANGED notDash
  /\ dashPc \in {"done", "stopped"}
  /\ dashPc' = "lists"
  /\ overview' = NoView
  /\ player_df' = NoView
  /\ top_df' = NoView
  /\ columns' = {}
  /\ UNCHANGED << default_null_ordering, tieOrder, listsCached, seasons,
                  players, selected_season, selected_player,
                  season_queries, player_queries, lookupFailed, cacheHit >>

\* a session in which every query is answered, with the columns it selects
NextDashboard ==
  \/ GetLists(TRUE, TRUE)
  \/ \E s \in {AllOption} \cup {<<y>> : y \in 2015..2020},
        p \in {AllOption} \cup Elements(PlayerNames) : SelectFilters(s, p)
  \/ Tab1(TRUE, BaseColumns)
  \/ Tab2(TRUE)
  \/ Tab3(TRUE)
  \/ Rerun

\* a session in which a query may fail and a description may lack a column
MaxOutageRows == 6   \* player-season rows of the fact table in such a session

InitOutage ==
  /\ \E n \in 0..MaxOutageRows :
       /\ fact_player_season = FactTable(n)
       /\ fact_player_season_advanced = AdvancedTable(n, 2015)
  /\ default_null_ordering = "LAST"
  /\ tieOrder = "table"
  /\ dashPc = "lists"
  /\ listsCached = FALSE
  /\ seasons = <<>>
  /\ players = <<>>
  /\ selected_season = AllOption
  /\ selected_player = AllOption
  /\ overview = NoView
  /\ player_df = NoView
  /\ top_df = NoView
  /\ LookupsIdle

NextOutage ==
  \/ \E seasons_ok \in BOOLEAN, players_ok \in BOOLEAN :
       GetLists(seasons_ok, players_ok)
  \/ \E s \in {AllOption} \cup {<<y>> : y \in 2015..2020},
        p \in {AllOption} \cup Elements(PlayerNames) : SelectFilters(s, p)
  \/ \E up \in BOOLEAN, description \in Descriptions : Tab1(up, description)
  \/ \E up \in BOOLEAN : Tab2(up)
  \/ \E up \in BOOLEAN : Tab3(up)
  \/ Rerun

(***************************************************************************)
(* Specifications                                                          *)
(***************************************************************************)
FactIdle ==
  /\ fact_player_season = NoRows
  /\ fact_player_season_advanced = NoRows

\* one DAG run, the whole chain
NextDag ==
  \/ Tick
  \/ TriggerRun(1)
  \/ \E t \in Tasks : StartTask(1, t)
  \/ \E t \in Tasks : RetryTask(1, t)
  \/ \E ok \in BOOLEAN, v \in Versions : Extract(1, ok, v)
  \/ \E success \in BOOLEAN, kept \in BOOLEAN : Load(1, success, kept)
  \/ \E t \in PlainTasks, ok \in BOOLEAN : RunOperator(1, t, ok)
  \/ \E fc \in 0..1, ac \in 0..1, up \in 0..1 : VerifyViz(1, fc, ac, up)

InitDag == InitPipe /\ FactIdle /\ SanIdle /\ VizIdle /\ DashIdle

Spec ==
  /\ InitDag
  /\ [][NextDag]_vars

\* the extract and load stages of all the runs, which share /tmp and the
\* staging table
LoadStage == {"extract_kaggle_data", "load_to_snowflake"}

NextLoad ==
  \/ Tick
  \/ \E r \in Runs : TriggerRun(r)
  \/ \E r \in Runs, t \in LoadStage : StartTask(r, t)
  \/ \E r \in Runs, t \in LoadStage : RetryTask(r, t)
  \/ \E r \in Runs, ok \in BOOLEAN, v \in Versions : Extract(r, ok, v)
  \/ \E r \in Runs, success \in BOOLEAN, kept \in BOOLEAN : Load(r, success, kept)

SpecLoad ==
  /\ InitDag
  /\ [][NextLoad]_vars

InitCleaning == InitPipe /\ FactIdle /\ InitSanitize /\ VizIdle /\ DashIdle

SpecSanitize ==
  /\ InitCleaning
  /\ [][NextSanitize]_vars

InitCheck == InitPipe /\ InitReadiness /\ SanIdle /\ DashIdle

SpecReadiness ==
  /\ InitCheck
  /\ [][NextReadiness]_vars

InitSession == InitPipe /\ SanIdle /\ VizIdle /\ InitDashboard

SpecDashboard ==
  /\ InitSession
  /\ [][NextDashboard]_vars

InitFaulty == InitPipe /\ SanIdle /\ VizIdle /\ InitOutage

SpecOutage ==
  /\ InitFaulty
  /\ [][NextOutage]_vars

(***************************************************************************)
(* Claims about the scheduler                                              *)
(***************************************************************************)
IsPrefix(s, t) == Len(s) <= Len(t) /\ SubSeq(t, 1, Len(s)) = s

Started(r, t) ==
  tiState[r][t] \in {"running", "success", "failed_retrying", "failed_terminal"}

\* a started task has its predecessor in the chain succeeded
Gated(r) ==
  \A i \in 2..Len(Chain) :
    Started(r, Chain[i]) => tiState[r][Chain[i - 1]] = "success"

OneAtATime(r) == Cardinality({t \in Tasks : tiState[r][t] = "running"}) <= 1

\* the stage names the claim gives the tasks
Stage(t) ==
  CASE t = "extract_kaggle_data" -> "extract"
    [] t = "load_to_snowflake" -> "load"
    [] t = "transform_with_dbt" -> "transform"
    [] t \in {"verify_raw_data", "verify_transformed_data"} -> "verify"
    [] t \in {"print_raw_verification_results",
              "print_transformed_verification_results"} -> "print"
    [] t = "verify_visualization_data" -> "readiness check"

SixStages ==
  <<"extract", "load", "transform", "verify", "print", "readiness check">>

\* C1 as stated: tasks start only after their predecessor succeeded, in the
\* order extract, load, transform, verify, print, readiness check, and never
\* two at a time
C1_Original ==
  \A r \in Runs :
    /\ Gated(r)
    /\ OneAtATime(r)
    /\ IsPrefix([i \in 1..Len(startLog[r]) |-> Stage(startLog[r][i])], SixStages)

\* C1 amended: a task starts only after its predecessor in the chain has
\* succeeded in the same run, so the tasks start in the chain order of the
\* eight tasks (extract, load, transform, verify raw, print raw, verify
\* transformed, print transformed, readiness check), never two at a time
C1_ChainOrder ==
  \A r \in Runs :
    /\ Gated(r)
    /\ OneAtATime(r)
    /\ IsPrefix(startLog[r], Chain)

C1_Witness ==
  /\ tiState[1]["verify_transformed_data"] = "running"
  /\ Len(startLog[1]) = 6

\* C2: a task that fails on every attempt is retried exactly 2 times (3
\* attempts), each retry at least 5 minutes after the failure, then is
\* failed-terminal with the run failed and nothing downstream ever started
C2_RetryBudget ==
  /\ [](\A r \in Runs, t \in Tasks :
          /\ tryNumber[r][t] <= 3
          /\ tiState[r][t] = "failed_retrying" =>
               tryNumber[r][t] < 3 /\ runState[r] = "running"
          /\ tiState[r][t] = "failed_terminal" =>
               /\ tryNumber[r][t] = 3
               /\ runState[r] = "failed"
               /\ \A d \in Downstream(t) :
                    tryNumber[r][d] = 0 /\ tiState[r][d] = "queued"
          /\ runState[r] = "failed" =>
               \E u \in Tasks : tiState[r][u] = "failed_terminal")
  /\ [][\A r \in Runs, t \in Tasks :
          (tiState[r][t] = "failed_retrying" /\ tiState'[r][t] = "running")
            => now >= failedAt[r][t] + 5 * 60]_vars

C2_Witness ==
  /\ tiState[1]["extract_kaggle_data"] = "failed_terminal"
  /\ tryNumber[1]["extract_kaggle_data"] = 3
  /\ tryNumber[1]["load_to_snowflake"] = 0
  /\ runState[1] = "failed"

\* C10 as stated: the run succeeds iff each of six tasks has succeeded
\* exactly once
C10_Original ==
  \A r \in Runs :
    /\ \A t \in Tasks : succCount[r][t] <= 1
    /\ runState[r] = "success"
         <=> Cardinality({t \in Tasks : succCount[r][t] = 1}) = 6

\* C10 amended: the chain has exactly eight tasks, and a run succeeds iff
\* each of the eight has succeeded exactly once, in chain order
C10_EightTasks ==
  /\ Cardinality(Tasks) = 8
  /\ \A r \in Runs :
       /\ \A t \in Tasks : succCount[r][t] <= 1
       /\ \A t \in Tasks : succCount[r][t] = 1 <=> tiState[r][t] = "success"
       /\ runState[r] = "success" <=> \A t \in Tasks : succCount[r][t] = 1
       /\ runState[r] = "success" => startLog[r] = Chain

C10_Witness ==
  /\ runState[1] = "success"
  /\ \A t \in Tasks : succCount[1][t] = 1

(***************************************************************************)
(* Claims about the extract and load stages                                *)
(***************************************************************************)
LoadSucceeds(r) ==
  /\ tiState[r]["load_to_snowflake"] = "running"
  /\ tiState'[r]["load_to_snowflake"] = "success"

\* C4: a load that succeeds leaves in the staging table exactly the rows
\* and the cleaned columns of the dataframe it read, nothing of an earlier
\* run; a load whose write_pandas reports failure never succeeds
C4_Overwrite ==
  /\ [][\A r \in Runs :
          LoadSucceeds(r) =>
            LET df == Dataset(files[xcom[r]].data)
            IN  /\ staging'.rows = df.rows
                /\ Cardinality(staging'.rows) = Cardinality(df.rows)
                /\ staging'.cols =
                     {CleanColumn(c) : c \in df.cols} \cup {extraction_timestamp}
                /\ writeOk'[r] = "ok"]_vars
  /\ [](\A r \in Runs :
          /\ tiState[r]["load_to_snowflake"] = "success" => writeOk[r] = "ok"
          /\ writeOk[r] = "failed" =>
               tiState[r]["load_to_snowflake"]
                 \in {"failed_retrying", "failed_terminal", "running"})

C4_Witness ==
  /\ tiState[1]["load_to_snowflake"] = "success"
  /\ tiState[2]["load_to_snowflake"] = "success"
  /\ loadedDf[1] = 1
  /\ loadedDf[2] = 2
  /\ staging = LoadFrame(Dataset(2))

\* C5: any two extractor invocations return distinct paths, and the loader
\* of a run reads the file its own run's extractor wrote
C5_DistinctPaths ==
  /\ \A r1 \in Runs, r2 \in Runs :
       (r1 # r2 /\ xcom[r1] # NoPath /\ xcom[r2] # NoPath)
         => xcom[r1] # xcom[r2]
  /\ \A r \in Runs : readFrom[r] \in {0, r}

(***************************************************************************)
(* Claims about the column-name cleaning                                   *)
(***************************************************************************)
\* C7: no cleaned column name contains a space, '%' or '/'
C7_NoBannedChar ==
  sanPc # "input" =>
    \A i \in 1..Len(cleaned) : cleaned[i] \notin {" ", "%", "/"}

C7_Witness ==
  /\ sanPc = "cleaned"
  /\ column = <<"W", "S", "/", "4", "8">>
  /\ cleaned = <<"W", "S", "_", "4", "8">>

\* C8: cleaning an already cleaned column name returns it unchanged
C8_Idempotent == sanPc = "twice" => recleaned = cleaned

C8_Witness ==
  /\ sanPc = "twice"
  /\ column = <<"3", "P", "%">>
  /\ cleaned = <<"T", "h", "r", "e", "e", "P", "_", "P", "C", "T">>
  /\ recleaned = cleaned

\* the name pandas gives the unnamed index column of the CSV
UnnamedIndex == <<"U", "n", "n", "a", "m", "e", "d", ":", " ", "0">>

\* C12: when the dataframe read by the loader has the column 'Unnamed: 0',
\* the staged columns contain 'Unnamed_0' and none of them contains a ':'
C12_UnnamedIndex ==
  \A r \in Runs :
    ( /\ tiState[r]["load_to_snowflake"] = "success"
      /\ UnnamedIndex \in Dataset(loadedDf[r]).cols
      /\ staging = LoadFrame(Dataset(loadedDf[r])) )
    => /\ <<"U", "n", "n", "a", "m", "e", "d", "_", "0">> \in staging.cols
       /\ \A c \in staging.cols : \A i \in 1..Len(c) : c[i] # ":"

(***************************************************************************)
(* Claims about the readiness check                                        *)
(***************************************************************************)
\* C3 as stated: the check returns true iff all three counts are positive
C3_Original ==
  vizPc = "done" =>
    /\ vizResult \in {"True", "raise"}
    /\ vizResult = "True"
         <=> (fact_count > 0 /\ advanced_count > 0 /\ unique_players > 0)

\* C3 amended: the check returns true iff the row counts of the two fact
\* tables are both positive, whatever the distinct-player count; for every
\* other combination it raises
C3_RowCountsOnly ==
  vizPc = "done" =>
    /\ vizResult \in {"True", "raise"}
    /\ vizResult = "True" <=> (fact_count > 0 /\ advanced_count > 0)

C3_Witness ==
  /\ vizPc = "done"
  /\ vizResult = "True"
  /\ fact_count > 0
  /\ advanced_count > 0
  /\ unique_players = 0

(***************************************************************************)
(* Claims about the dashboard                                              *)
(***************************************************************************)
Selected ==
  {row \in LeftJoin :
     /\ selected_season # AllOption => row.season_year = selected_season[1]
     /\ selected_player # AllOption => row.player_name = selected_player}

\* C6: for every season and player the selectors offer, the base query
\* executes and returns exactly the rows of that season and that player, by
\* descending points per game; "All" omits the condition
C6_BaseQuery ==
  dashPc \in {"tab2", "tab3", "done"} =>
    /\ overview.status = "ok"
    /\ Elements(overview.rows) = Selected
    /\ Len(overview.rows) = Cardinality(Selected)
    /\ selected_season # AllOption =>
         \A i \in 1..Len(overview.rows), j \in 1..Len(overview.rows) :
           i < j => overview.rows[i].points_per_game
                      >= overview.rows[j].points_per_game

\* C9: the top performers query returns min(20, N) rows of the join, those
\* with the highest value over replacement, in descending order, and no row
\* with NULL advanced metrics stands above a row with a value
C9_TopPerformers ==
  dashPc = "done" =>
    /\ top_df.status = "ok"
    /\ Len(top_df.rows) = Min(20, Cardinality(LeftJoin))
    /\ Elements(top_df.rows) \subseteq LeftJoin
    /\ \A i \in 1..Len(top_df.rows), j \in 1..Len(top_df.rows) :
         i < j =>
           LET vi == top_df.rows[i].value_over_replacement_player
               vj == top_df.rows[j].value_over_replacement_player
           IN  /\ vi = NULL => vj = NULL
               /\ (vi # NULL /\ vj # NULL) => vi[1] >= vj[1]
    /\ \A out \in LeftJoin \ Elements(top_df.rows), in \in Elements(top_df.rows) :
         LET vo == out.value_over_replacement_player
             vi == in.value_over_replacement_player
         IN  vo = NULL \/ (vi # NULL /\ vi[1] >= vo[1])

\* the pass has ended: the script ran to its last line or st.stop() ended it
PassEnded == dashPc \in {"done", "stopped"}

\* tab1 has made its query in this pass
OverviewDone == dashPc \in {"tab2", "tab3", "done", "stopped"}

\* the views that show an st.error message
ErrorShown(view) == view.status \in {"error", "missing_columns"}

\* the part of C11 about failing queries, on its own: a query that fails in
\* a view shows an error in that view and the pass goes on to the next view
QueryErrorsInline ==
  /\ (OverviewDone /\ columns = {}) =>
       (overview.status = "error" /\ dashPc # "stopped")
  /\ dashPc = "done" => top_df.status \in {"ok", "error"}

LookupsAtMostOnce == season_queries <= 1 /\ player_queries <= 1

\* C13: in a session each list lookup is sent to the warehouse at most once,
\* and the lists a later render takes from the cache are those of a
\* successful query, never the result of a failed lookup
C13_CachedLookups ==
  /\ LookupsAtMostOnce
  /\ cacheHit => lookupFailed = {}

====
